---------------------------- MODULE Spec2Model ----------------------------
(***************************************************************************)
(* A model of three parts of macaron:                                      *)
(*   - ProvenanceAvailableCheck  (checks/provenance_available_check.py)    *)
(*   - BuildAsCodeCheck          (checks/build_as_code_check.py)           *)
(*   - the policy engine CLI     (policy_engine/__main__.py)               *)
(* Each part has its own specification (SpecPA, SpecBAC, SpecPE, ...); the *)
(* variables of the other parts stay at their initial values.              *)
(***************************************************************************)
EXTENDS Integers, Sequences, FiniteSets, TLC

VARIABLES
    \* ---- AnalyzeContext (shared by the checks) ----
    package_registries,   \* ctx.dynamic_data["package_registries"]
    ci_services,          \* ctx.dynamic_data["ci_services"]
    is_inferred_prov,     \* ctx.dynamic_data["is_inferred_prov"]
    repo_remote_path,     \* ctx.component.repository.remote_path
    max_download_size,    \* defaults ["slsa.verifier"]["max_download_size"]
    check_result,         \* the CheckResult handed to run_check, plus the returned status
    \* ---- ProvenanceAvailableCheck.run_check ----
    pc,                   \* position in run_check and the functions it calls
    ri,                   \* index of the package registry entry being visited
    ci,                   \* index of the CI service being visited
    provenance_assets,    \* local: the candidate assets of the current source
    ai,                   \* index of the asset being downloaded
    provenances,          \* local: provenances / downloaded_provs being collected
    temp_dir,             \* TRUE while the tempfile.TemporaryDirectory exists
    found,                \* the sequence returned by discovery
    error,                \* the ProvenanceAvailableException in flight ("" if none)
    calls,                \* the calls made to the collaborators, in order
    entry,                \* the context as it was when run_check was entered
    \* ---- policy engine CLI ----
    pe_pc,                \* position in main / non_interactive
    show_prelude,         \* args.show_prelude
    res,                  \* the mapping policy_engine(database_path, policy_file) returns
    returned,             \* what non_interactive returned
    exit_code,            \* the exit code of the process
    \* ---- BuildAsCodeCheck and the scheduler that runs it ----
    bac_pc,               \* position in the scheduler / BuildAsCodeCheck.run_check
    build_tool,           \* ctx.dynamic_data["build_spec"].get("tool")
    check_results,        \* the result status of the checks run before (by check id)
    si,                   \* index of the CI service being evaluated
    build_as_code_subchecks,  \* bac_.build_as_code_subchecks: the certainties handed to the rule program
    evaluated,            \* the sub-check runs and fusions made so far, in order
    raised,               \* the exception that left run_check ("" if none)
    \* ---- the rule program evaluated on its own ----
    fuse_pc,              \* position of the evaluation
    fused_score,          \* the marginal probability the evaluation returned
    previous,             \* the certainties and the score of the evaluation before
    \* ---- has_deploy_command called on its own ----
    hdc_pc,               \* position of the call
    hdc_commands,         \* the argument commands: a list of commands, each a list of words
    hdc_deploy_cmd        \* the command returned (<<>> for the empty string)

ctxVars == <<package_registries, ci_services, is_inferred_prov, repo_remote_path,
             max_download_size, check_result>>
paVars == <<pc, ri, ci, provenance_assets, ai, provenances, temp_dir, found, error, calls,
           entry>>

peVars == <<pe_pc, show_prelude, res, returned, exit_code>>

bacVars == <<bac_pc, build_tool, check_results, si, build_as_code_subchecks, evaluated, raised>>

fuseVars == <<fuse_pc, fused_score, previous>>

hdcVars == <<hdc_pc, hdc_commands, hdc_deploy_cmd>>

vars == <<ctxVars, paVars, peVars, bacVars, fuseVars, hdcVars>>

-----------------------------------------------------------------------------
(* Bounds of the model *)

MaxEntries == 2     \* package registry entries / CI services per context
MaxAssets == 2      \* assets one source lists

-----------------------------------------------------------------------------
(* Helpers *)

RECURSIVE SeqsUpTo(_, _)
SeqsUpTo(S, n) ==
    IF n = 0 THEN {<<>>}
    ELSE LET shorter == SeqsUpTo(S, n - 1)
         IN  shorter \cup {Append(s, x) : s \in {t \in shorter : Len(t) = n - 1}, x \in S}

Range(s) == {s[i] : i \in DOMAIN s}

\* fallback=1000000 of defaults.getint("slsa.verifier", "max_download_size")
DefaultMaxDownloadSize == 1000000

\* The configured maxima the model runs with: the fallback and an overriding value.
MaxDownloadSizes == {DefaultMaxDownloadSize, 1000}

\* Declared sizes around a maximum: below, exactly at and just above it.
SizesAround(max) == {max - 1, max, max + 1}

\* The remote URL of the analysed repository, and the URLs a payload may embed:
\* the same URL, a variant with a suffix added and a proper prefix of it.
RepoURLs == {"https://host/o/r"}
PayloadURLs == RepoURLs \cup {"https://host/o/r2", "https://host/o"}

\* fallback=["intoto.jsonl"] of defaults.get_list("slsa.verifier", "provenance_extensions")
provenance_extensions == <<"intoto.jsonl">>

\* An asset reference as a source lists it (JFrogMavenAsset / a release asset dict).
Asset(name, size) == [name |-> name, url |-> 1000 + name, size |-> size]

\* The asset lists a source may report: at most MaxAssets assets, named base+1, base+2, ...
AssetLists(base, max) ==
    {[k \in 1..Len(sizes) |-> Asset(base + k, sizes[k])] :
        sizes \in SeqsUpTo(SizesAround(max), MaxAssets)}

\* Entries of a justification list: <<text, asset name, number>>.
Msg(text) == <<text, 0, 0>>
AssetName(asset) == <<"asset", asset.name, 0>>

-----------------------------------------------------------------------------
(* ProvenanceAvailableCheck *)

\* str(ProvenanceAvailableException(msg)) of the size guard
SizeViolationMsg(asset, max) == <<"unexpectedly exceeds the max valid file size", asset.name, max>>

NoError == <<>>

\* case PackageRegistryInfo(build_tool=Gradle(), package_registry=JFrogMavenRegistry())
MatchesGradleJFrog(info_entry) ==
    info_entry.build_tool = "gradle" /\ info_entry.package_registry = "jfrog_maven"

\* The size guard with the comparison off by one (rejects an asset at the maximum).
ExceedsMaxValidSizeOffByOne(asset, max) == asset.size >= max

\* provenance_asset.size_in_bytes > max_valid_provenance_size
ExceedsMaxValidSize(asset, max) == asset.size > max

\* int(prov_asset["size"]) > defaults.getint("slsa.verifier", "max_download_size", ...)
CIAssetTooLarge(asset, max) == asset.size > max

\* if not repo_url != repo_remote_path: continue
SkipsWitness(repo_url, remote) == ~(repo_url # remote)

\* What downloading and loading one registry asset can yield.
NotDownloaded ==
    [downloaded |-> FALSE, loaded |-> FALSE, witness |-> FALSE, repo_url |-> "", raises |-> FALSE]
NotLoaded ==
    [downloaded |-> TRUE, loaded |-> FALSE, witness |-> FALSE, repo_url |-> "", raises |-> FALSE]
NotWitness ==
    [downloaded |-> TRUE, loaded |-> TRUE, witness |-> FALSE, repo_url |-> "", raises |-> FALSE]
WitnessPayload(u) ==
    [downloaded |-> TRUE, loaded |-> TRUE, witness |-> TRUE, repo_url |-> u, raises |-> FALSE]

\* An exception other than the load error the loop catches leaves a call made for
\* the asset (the download, the loader or extract_repo_url).
Raises ==
    [downloaded |-> FALSE, loaded |-> FALSE, witness |-> FALSE, repo_url |-> "", raises |-> TRUE]

DownloadOutcomes ==
    {NotDownloaded, NotLoaded, NotWitness, Raises} \cup {WitnessPayload(u) : u \in PayloadURLs}

\* What downloading and loading one CI release asset can yield.
CIDownloadOutcomes == {NotDownloaded, NotLoaded, NotWitness, Raises}

\* The temporary directory is left as tempfile.mkdtemp() leaves it: in place.
AfterMkdtemp == TRUE

\* with tempfile.TemporaryDirectory() as temp_dir: the directory exists (TRUE) or
\* not (FALSE) once the block is left, by its end or by an exception.
AfterWith == FALSE

\* The asset index after a skipped asset, the loop ending at the skip (break).
AfterSkipBreak(k, n) == n + 1

\* continue: the asset index after a skipped asset, of n assets.
AfterSkip(k, n) == k + 1

\* A CI service is never taken for a NoneCIService.
IsNoneCIServiceNever(ci_info) == FALSE

\* isinstance(ci_service, NoneCIService)
IsNoneCIService(ci_info) == ci_info.service = "none"

\* The fact records written for one asset only, the first.
FactRecordsFirstOnly(assets) ==
    [k \in 1..1 |-> [asset_name |-> assets[k].name, asset_url |-> assets[k].url]]

\* [ProvenanceAvailableFacts(asset_name=asset.name, asset_url=asset.url) for asset in provenance_assets]
FactRecords(assets) ==
    [k \in DOMAIN assets |-> [asset_name |-> assets[k].name, asset_url |-> assets[k].url]]

PackageRegistryInfos ==
    {[build_tool |-> b, package_registry |-> "jfrog_maven", provenances |-> <<>>] :
        b \in {"gradle", "maven"}}

NoRelease == [exists |-> FALSE, assets |-> <<>>]

\* The CIInfo records of a context before any check has run.
CIInfo(service, bash_commands, callgraph, kws_config, provs) ==
    [service |-> service, bash_commands |-> bash_commands, callgraph |-> callgraph,
     kws_config |-> kws_config, latest_release |-> NoRelease,
     provenance_assets |-> <<>>, provenances |-> provs]

PACIInfos == {CIInfo(s, <<>>, <<>>, "", <<>>) : s \in {"none", "github_actions"}}

\* The releases get_latest_release may return for CI service c: none, or a release
\* whose assets with the (single) provenance extension are one of the asset lists.
Releases(c, max) ==
    {NoRelease} \cup {[exists |-> TRUE, assets |-> l] : l \in AssetLists(100 * c, max)}

\* ci_service.api_client.get_assets(release, ext=prov_ext)
get_assets(release, ext) == IF ext = provenance_extensions[1] THEN release.assets ELSE <<>>

\* confidence_score -1: the key is absent.
NewCheckResult ==
    [result_type |-> "", justification |-> <<>>, result_tables |-> <<>>, confidence_score |-> -1]

\* The ProvenanceAvailableCheck is not running.
PAIdle ==
    /\ pc = "idle" /\ ri = 0 /\ ci = 0 /\ provenance_assets = <<>> /\ ai = 0
    /\ provenances = <<>> /\ temp_dir = FALSE /\ found = <<>> /\ error = NoError
    /\ calls = <<>> /\ entry = <<>>

\* The context of a specification that runs no check.
CtxIdle ==
    /\ package_registries = <<>> /\ ci_services = <<>> /\ is_inferred_prov = FALSE
    /\ repo_remote_path = "" /\ max_download_size = 0 /\ check_result = NewCheckResult

\* The policy engine is not running.
PEIdle ==
    /\ pe_pc = "idle" /\ show_prelude = FALSE /\ res = <<>> /\ returned = FALSE
    /\ exit_code = 0

\* The BuildAsCodeCheck is not running.
BACIdle ==
    /\ bac_pc = "idle" /\ build_tool = <<>> /\ check_results = <<>> /\ si = 0
    /\ build_as_code_subchecks = <<>> /\ evaluated = <<>> /\ raised = ""

\* The rule program is not evaluated on its own.
FuseIdle == fuse_pc = "idle" /\ fused_score = -1 /\ previous = <<>>

\* has_deploy_command is not called on its own.
HDCIdle == hdc_pc = "idle" /\ hdc_commands = <<>> /\ hdc_deploy_cmd = <<>>

PAInit ==
    /\ PEIdle
    /\ BACIdle
    /\ FuseIdle
    /\ HDCIdle
    /\ package_registries \in SeqsUpTo(PackageRegistryInfos, MaxEntries)
    /\ ci_services \in SeqsUpTo(PACIInfos, MaxEntries)
    /\ is_inferred_prov \in BOOLEAN
    /\ repo_remote_path \in RepoURLs
    /\ max_download_size \in MaxDownloadSizes
    /\ check_result = NewCheckResult
    /\ pc = "package_registries" /\ ri = 1 /\ ci = 1 /\ provenance_assets = <<>> /\ ai = 1
    /\ provenances = <<>> /\ temp_dir = FALSE /\ found = <<>> /\ error = NoError
    /\ calls = <<>>
    /\ entry = [package_registries |-> package_registries, ci_services |-> ci_services,
                is_inferred_prov |-> is_inferred_prov]

\* find_provenance_assets_on_package_registries: one iteration of the loop over the
\* entries, up to the size guard; past the last entry it returns [], and run_check's
\* "or" goes on to the CI services.
FindOnPackageRegistries ==
    /\ pc = "package_registries"
    /\ IF ri > Len(package_registries)
       THEN /\ found' = <<>>
            /\ pc' = "ci_services"
            /\ calls' = Append(calls, <<"find_provenance_assets_on_ci_services", 0>>)
            /\ UNCHANGED <<ri, provenance_assets>>
       ELSE IF ~MatchesGradleJFrog(package_registries[ri])
       THEN /\ ri' = ri + 1
            /\ UNCHANGED <<pc, found, provenance_assets, calls>>
       ELSE \E assets \in AssetLists(10 * ri, max_download_size) :
            /\ calls' = Append(calls, <<"fetch_assets", ri>>)
            /\ IF assets = <<>>
               THEN /\ ri' = ri + 1
                    /\ UNCHANGED <<pc, provenance_assets>>
               ELSE /\ provenance_assets' = assets
                    /\ pc' = "size_guard"
                    /\ UNCHANGED ri
            /\ UNCHANGED found
    /\ UNCHANGED <<ctxVars, ci, ai, provenances, temp_dir, error, entry, peVars, bacVars, fuseVars, hdcVars>>

\* The size guard made per asset inside the download loop: the assets listed before
\* the first oversized one are downloaded before the violation is raised.
SizeGuardPerAsset ==
    /\ pc = "size_guard"
    /\ LET over == {i \in DOMAIN provenance_assets :
                        ExceedsMaxValidSize(provenance_assets[i], max_download_size)}
       IN  IF over # {}
           THEN LET first == CHOOSE i \in over : \A j \in over : i <= j
                IN  /\ error' = SizeViolationMsg(provenance_assets[first], max_download_size)
                    /\ pc' = "except"
                    /\ calls' = (Append(calls, <<"TemporaryDirectory", 0>>)
                                    \o [k \in 1..(first - 1) |->
                                           <<"download", provenance_assets[k].name>>])
                                    \o << <<"cleanup", 0>> >>
                    /\ UNCHANGED <<ai, provenances, temp_dir>>
           ELSE /\ pc' = "obtain_witness"
                /\ ai' = 1
                /\ provenances' = <<>>
                /\ temp_dir' = TRUE
                /\ calls' = Append(calls, <<"TemporaryDirectory", 0>>)
                /\ UNCHANGED error
    /\ UNCHANGED <<ctxVars, ri, ci, provenance_assets, found, entry, peVars, bacVars, fuseVars, hdcVars>>

\* The size guard over all candidate assets of the pairing; without a violation
\* obtain_witness_provenances is entered and its temporary directory created.
SizeGuard ==
    /\ pc = "size_guard"
    /\ LET over == {i \in DOMAIN provenance_assets :
                        ExceedsMaxValidSize(provenance_assets[i], max_download_size)}
       IN  IF over # {}
           THEN LET first == CHOOSE i \in over : \A j \in over : i <= j
                IN  /\ error' = SizeViolationMsg(provenance_assets[first], max_download_size)
                    /\ pc' = "except"
                    /\ UNCHANGED <<ai, provenances, temp_dir, calls>>
           ELSE /\ pc' = "obtain_witness"
                /\ ai' = 1
                /\ provenances' = <<>>
                /\ temp_dir' = TRUE
                /\ calls' = Append(calls, <<"TemporaryDirectory", 0>>)
                /\ UNCHANGED error
    /\ UNCHANGED <<ctxVars, ri, ci, provenance_assets, found, entry, peVars, bacVars, fuseVars, hdcVars>>

\* obtain_witness_provenances: one iteration of the loop over the assets.
ObtainWitness ==
    /\ pc = "obtain_witness"
    /\ ai <= Len(provenance_assets)
    /\ \E o \in DownloadOutcomes :
         LET asset == provenance_assets[ai]
             keep == /\ o.downloaded
                     /\ o.loaded
                     /\ o.witness
                     /\ ~SkipsWitness(o.repo_url, repo_remote_path)
         IN  IF o.raises
             THEN /\ calls' = calls \o << <<"download", asset.name>>, <<"raise", asset.name>> >>
                  /\ temp_dir' = AfterWith
                  /\ pc' = "raised"
                  /\ UNCHANGED <<provenances, ai>>
             ELSE /\ calls' = Append(calls, <<"download", asset.name>>)
                  /\ provenances' =
                         IF keep
                         THEN Append(provenances,
                                     [asset |-> asset, payload |-> [repo_url |-> o.repo_url]])
                         ELSE provenances
                  /\ ai' = IF keep THEN ai + 1 ELSE AfterSkip(ai, Len(provenance_assets))
                  /\ UNCHANGED <<pc, temp_dir>>
    /\ UNCHANGED <<ctxVars, ri, ci, provenance_assets, found, error, entry, peVars, bacVars,
                   fuseVars, hdcVars>>

\* The end of obtain_witness_provenances with the search going on to the next
\* pairing when no witness provenance was obtained.
ObtainWitnessReturnContinues ==
    /\ pc = "obtain_witness"
    /\ ai > Len(provenance_assets)
    /\ temp_dir' = AfterWith
    /\ calls' = Append(calls, <<"cleanup", 0>>)
    /\ package_registries' =
          [package_registries EXCEPT ![ri].provenances = @ \o provenances]
    /\ IF provenances # <<>>
       THEN found' = provenance_assets /\ pc' = "decide" /\ UNCHANGED ri
       ELSE ri' = ri + 1 /\ pc' = "package_registries" /\ UNCHANGED found
    /\ UNCHANGED <<ci_services, is_inferred_prov, repo_remote_path, max_download_size,
                   check_result, ci, provenance_assets, ai, provenances, error, entry, peVars,
                   bacVars, fuseVars, hdcVars>>

\* The end of obtain_witness_provenances with witness_provenance_assets returned:
\* when it is empty run_check's "or" goes on to the CI services.
ObtainWitnessReturnWitnessOnly ==
    /\ pc = "obtain_witness"
    /\ ai > Len(provenance_assets)
    /\ temp_dir' = AfterWith
    /\ package_registries' =
          [package_registries EXCEPT ![ri].provenances = @ \o provenances]
    /\ found' = [k \in DOMAIN provenances |-> provenances[k].asset]
    /\ IF provenances # <<>>
       THEN /\ pc' = "decide"
            /\ calls' = Append(calls, <<"cleanup", 0>>)
       ELSE /\ pc' = "ci_services"
            /\ calls' = calls \o << <<"cleanup", 0>>,
                                     <<"find_provenance_assets_on_ci_services", 0>> >>
    /\ UNCHANGED <<ci_services, is_inferred_prov, repo_remote_path, max_download_size,
                   check_result, ri, ci, provenance_assets, ai, provenances, error, entry,
                   peVars, bacVars, fuseVars, hdcVars>>

\* The end of obtain_witness_provenances and of the registry search: the temporary
\* directory is gone, the provenances are stored on the entry, the assets returned.
ObtainWitnessReturn ==
    /\ pc = "obtain_witness"
    /\ ai > Len(provenance_assets)
    /\ temp_dir' = AfterWith
    /\ calls' = Append(calls, <<"cleanup", 0>>)
    /\ package_registries' =
          [package_registries EXCEPT ![ri].provenances = @ \o provenances]
    /\ found' = provenance_assets
    /\ pc' = IF provenance_assets # <<>> THEN "decide" ELSE "ci_services"
    /\ UNCHANGED <<ci_services, is_inferred_prov, repo_remote_path, max_download_size,
                   check_result, ri, ci, provenance_assets, ai, provenances, error, entry, peVars, bacVars, fuseVars, hdcVars>>

\* The first extension for which the release has assets (0 if there is none).
RECURSIVE FirstExtWithAssets(_, _)
FirstExtWithAssets(release, k) ==
    IF k > Len(provenance_extensions) THEN 0
    ELSE IF get_assets(release, provenance_extensions[k]) # <<>> THEN k
    ELSE FirstExtWithAssets(release, k + 1)

\* find_provenance_assets_on_ci_services: one iteration of the loop over the CI
\* services, up to the call of download_provenances_from_github_actions_ci_service.
FindOnCIServices ==
    /\ pc = "ci_services"
    /\ IF ci > Len(ci_services)
       THEN /\ found' = <<>>
            /\ pc' = "decide"
            /\ UNCHANGED <<ci, ci_services, calls, ai, provenances, temp_dir>>
       ELSE IF IsNoneCIService(ci_services[ci])
       THEN /\ ci' = ci + 1
            /\ UNCHANGED <<pc, found, ci_services, calls, ai, provenances, temp_dir>>
       ELSE \E release \in Releases(ci, max_download_size) :
            LET k == FirstExtWithAssets(release, 1)
                asked == [j \in 1..(IF k = 0 THEN Len(provenance_extensions) ELSE k) |->
                             <<"get_assets", ci>>]
            IN  IF ~release.exists
                THEN /\ calls' = Append(calls, <<"get_latest_release", ci>>)
                     /\ ci' = ci + 1
                     /\ UNCHANGED <<pc, found, ci_services, ai, provenances, temp_dir>>
                ELSE IF k = 0
                THEN /\ calls' = Append(calls, <<"get_latest_release", ci>>) \o asked
                     /\ ci_services' = [ci_services EXCEPT ![ci].latest_release = release]
                     /\ ci' = ci + 1
                     /\ UNCHANGED <<pc, found, ai, provenances, temp_dir>>
                ELSE /\ calls' = (Append(calls, <<"get_latest_release", ci>>) \o asked)
                                      \o << <<"TemporaryDirectory", 0>> >>
                     /\ ci_services' =
                           [ci_services EXCEPT
                              ![ci].latest_release = release,
                              ![ci].provenance_assets =
                                  @ \o get_assets(release, provenance_extensions[k])]
                     /\ pc' = "ci_download"
                     /\ ai' = 1
                     /\ provenances' = <<>>
                     /\ temp_dir' = TRUE
                     /\ UNCHANGED <<ci, found>>
    /\ UNCHANGED <<package_registries, is_inferred_prov, repo_remote_path, max_download_size,
                   check_result, ri, provenance_assets, error, entry, peVars, bacVars, fuseVars, hdcVars>>

\* download_provenances_from_github_actions_ci_service: one iteration of the loop.
CIDownload ==
    /\ pc = "ci_download"
    /\ ai <= Len(ci_services[ci].provenance_assets)
    /\ LET asset == ci_services[ci].provenance_assets[ai]
           n == Len(ci_services[ci].provenance_assets)
       IN  IF CIAssetTooLarge(asset, max_download_size)
           THEN /\ ai' = AfterSkip(ai, n)
                /\ UNCHANGED <<calls, provenances, pc, temp_dir>>
           ELSE \E o \in CIDownloadOutcomes :
                IF o.raises
                THEN /\ calls' = calls \o << <<"download", asset.name>>, <<"raise", asset.name>> >>
                     /\ temp_dir' = AfterWith
                     /\ pc' = "raised"
                     /\ UNCHANGED <<provenances, ai>>
                ELSE /\ calls' = Append(calls, <<"download", asset.name>>)
                     /\ provenances' =
                           IF o.downloaded /\ o.loaded
                           THEN Append(provenances, [asset |-> asset])
                           ELSE provenances
                     /\ ai' = IF o.downloaded /\ o.loaded THEN ai + 1 ELSE AfterSkip(ai, n)
                     /\ UNCHANGED <<pc, temp_dir>>
    /\ UNCHANGED <<ctxVars, ri, ci, provenance_assets, found, error, entry, peVars, bacVars,
                   fuseVars, hdcVars>>

\* The end of the CI download and of the CI search: the payloads are stored on the
\* CIInfo, the temporary directory is gone, all provenance assets are returned.
CIDownloadReturn ==
    /\ pc = "ci_download"
    /\ ai > Len(ci_services[ci].provenance_assets)
    /\ ci_services' = [ci_services EXCEPT ![ci].provenances = provenances]
    /\ temp_dir' = AfterWith
    /\ calls' = Append(calls, <<"cleanup", 0>>)
    /\ found' = ci_services[ci].provenance_assets
    /\ pc' = "decide"
    /\ UNCHANGED <<package_registries, is_inferred_prov, repo_remote_path, max_download_size,
                   check_result, ri, ci, provenance_assets, ai, provenances, error, entry, peVars, bacVars, fuseVars, hdcVars>>

\* The handler downgrading the size violation: it goes on to the CI services.
ExceptFallsBack ==
    /\ pc = "except"
    /\ pc' = "ci_services"
    /\ UNCHANGED <<ctxVars, ri, ci, provenance_assets, ai, provenances,
                   temp_dir, found, error, calls, entry, peVars, bacVars, fuseVars, hdcVars>>

\* except ProvenanceAvailableException as error: ... return CheckResultType.FAILED
Except ==
    /\ pc = "except"
    /\ check_result' = [check_result EXCEPT !.justification = <<error>>,
                                            !.result_type = "FAILED"]
    /\ pc' = "done"
    /\ UNCHANGED <<package_registries, ci_services, is_inferred_prov, repo_remote_path,
                   max_download_size, ri, ci, provenance_assets, ai, provenances,
                   temp_dir, found, error, calls, entry, peVars, bacVars, fuseVars, hdcVars>>

\* The rest of run_check, once discovery has returned.
Decide ==
    /\ pc = "decide"
    /\ IF found # <<>>
       THEN /\ is_inferred_prov' = FALSE
            /\ check_result' =
                  [check_result EXCEPT
                     !.result_type = "PASSED",
                     !.justification =
                         Append(@, Msg("Found provenance in release assets:"))
                             \o [k \in DOMAIN found |-> AssetName(found[k])],
                     !.result_tables = FactRecords(found)]
       ELSE /\ check_result' =
                  [check_result EXCEPT
                     !.justification = Append(@, Msg("Could not find any SLSA provenances.")),
                     !.result_type = "FAILED"]
            /\ UNCHANGED is_inferred_prov
    /\ pc' = "done"
    /\ UNCHANGED <<package_registries, ci_services, repo_remote_path, max_download_size,
                   ri, ci, provenance_assets, ai, provenances, temp_dir, found, error, calls, entry, peVars, bacVars, fuseVars, hdcVars>>

PANext ==
    \/ FindOnPackageRegistries
    \/ SizeGuard
    \/ ObtainWitness
    \/ ObtainWitnessReturn
    \/ FindOnCIServices
    \/ CIDownload
    \/ CIDownloadReturn
    \/ Except
    \/ Decide

SpecPA == PAInit /\ [][PANext]_vars

-----------------------------------------------------------------------------
(* The policy engine CLI *)

MaxRows == 2        \* rows a derived relation holds

\* Rows of a derived relation: an empty row and rows that hold values.
Rows == {<<>>, <<"policy-1">>, <<"">>}

\* The relations a policy program may derive next to failed_policies.
Relations == {"failed_policies", "passed_policies"}

\* The mappings from relation name to list of rows the evaluator may return.
PolicyResults ==
    UNION {[d -> SeqsUpTo(Rows, MaxRows)] : d \in SUBSET Relations}

\* Python truth value of a row (a list): non-empty.
Truthy(row) == row # <<>>

\* any(rows): some element is truthy.
PyAny(rows) == \E k \in DOMAIN rows : Truthy(rows[k])

\* return ("failed_policies" in res) and any(res["failed_policies"])
FailedPolicies(r) == ("failed_policies" \in DOMAIN r) /\ PyAny(r["failed_policies"])

PEInit ==
    /\ CtxIdle
    /\ PAIdle
    /\ BACIdle
    /\ FuseIdle
    /\ HDCIdle
    /\ pe_pc = "main"
    /\ show_prelude \in BOOLEAN
    /\ res \in PolicyResults
    /\ returned = FALSE
    /\ exit_code = -1

\* non_interactive(database_path, show_prelude, policy_file)
non_interactive ==
    /\ pe_pc = "main"
    /\ returned' = IF show_prelude THEN FALSE ELSE FailedPolicies(res)
    /\ pe_pc' = "returned"
    /\ UNCHANGED <<show_prelude, res, exit_code, ctxVars, paVars, bacVars, fuseVars, hdcVars>>

\* sys.exit(res): the exit code of a bool is 1 for True and 0 for False.
main_exit ==
    /\ pe_pc = "returned"
    /\ exit_code' = IF returned THEN 1 ELSE 0
    /\ pe_pc' = "exited"
    /\ UNCHANGED <<show_prelude, res, returned, ctxVars, paVars, bacVars, fuseVars, hdcVars>>

PENext ==
    \/ non_interactive
    \/ main_exit

SpecPE == PEInit /\ [][PENext]_vars

-----------------------------------------------------------------------------
(* BuildAsCodeCheck: build tools, CI services and the sub-checks *)

MaxServices == 2    \* CI services of the context the build-as-code check runs on

\* check_certainty of the four sub-checks, in tenths
CiParsedCertainty == 10
DeployActionCertainty == 8
DeployCommandCertainty == 7
DeployKwsCertainty == 6

\* self.confidence_score_threshold = 0.3, in units of 10^-9 (the unit of FusedScore)
confidence_score_threshold == 300000000

\* depends_on of BuildAsCodeCheck.__init__
depends_on == << <<"mcn_trusted_builder_level_three_1", "FAILED">> >>

\* result_on_skip left at the default of a check.
result_on_skip_default == "SKIPPED"

\* result_on_skip=CheckResultType.PASSED
result_on_skip == "PASSED"

\* CheckResultType
CheckResultTypes == {"PASSED", "FAILED", "SKIPPED", "UNKNOWN", "DISABLED"}

\* ctx.dynamic_data["build_spec"].get("tool"): nothing, a NoneBuildTool, or a build
\* tool with the attributes the check reads.
NoTool ==
    [kind |-> "absent", name |-> "", builder |-> {}, publisher |-> {}, interpreter |-> {},
     interpreter_flag |-> {}, deploy_arg |-> {}, ci_deploy_kws |-> {}]
NoneBuildTool == [NoTool EXCEPT !.kind = "NoneBuildTool"]
Maven ==
    [kind |-> "tool", name |-> "maven", builder |-> {"mvn"}, publisher |-> {},
     interpreter |-> {}, interpreter_flag |-> {}, deploy_arg |-> {"deploy"},
     ci_deploy_kws |-> {"mvn deploy"}]
Pip ==
    [kind |-> "tool", name |-> "pip", builder |-> {"pip"}, publisher |-> {"twine"},
     interpreter |-> {"python"}, interpreter_flag |-> {"-m"}, deploy_arg |-> {"upload"},
     ci_deploy_kws |-> {}]
BuildTools == {NoTool, NoneBuildTool, Maven, Pip}

\* build_tool (truthy) with the isinstance test on NoneBuildTool left out.
HasBuildToolAnyObject(tool) == tool.kind # "absent"

\* build_tool and not isinstance(build_tool, NoneBuildTool)
HasBuildTool(tool) == tool.kind # "absent" /\ tool.kind # "NoneBuildTool"

\* os.path.basename on the program names of the model
Basename(w) ==
    CASE w = "/usr/bin/mvn" -> "mvn"
      [] w = "bin/" -> ""
      [] OTHER -> w

\* deploy_tool = build_tool.publisher if build_tool.publisher else build_tool.builder
DeployTool(tool) == IF tool.publisher # {} THEN tool.publisher ELSE tool.builder

\* check_module_build_commands: "IndexError" when com[1] or com[2] is read past the
\* end of the command, else "True" or "False".
CheckModuleBuildCommands(com, name, tool) ==
    IF name \notin tool.interpreter THEN "False"
    ELSE IF Len(com) < 2 THEN "IndexError"
    ELSE IF com[2] = "" \/ com[2] \notin tool.interpreter_flag THEN "False"
    ELSE IF Len(com) < 3 THEN "IndexError"
    ELSE IF com[3] # "" /\ com[3] \in DeployTool(tool) THEN "True"
    ELSE "False"

\* has_deploy_command(commands, build_tool), from command k on: the command found
\* (<<>> for the empty string) or the IndexError raised.
RECURSIVE has_deploy_command(_, _, _)
has_deploy_command(commands, tool, k) ==
    IF k > Len(commands) THEN [raised |-> FALSE, cmd |-> <<>>]
    ELSE LET com == commands[k]
             rest == has_deploy_command(commands, tool, k + 1)
         IN  IF com = <<>> \/ com[1] = "" THEN rest
             ELSE IF Basename(com[1]) = "" THEN rest
             ELSE LET name == Basename(com[1])
                      check_build_commands == name \in DeployTool(tool)
                      check_module == CheckModuleBuildCommands(com, name, tool)
                      prog_name_index == IF check_module = "True" THEN 2 ELSE 0
                  IN  IF check_module = "IndexError" THEN [raised |-> TRUE, cmd |-> <<>>]
                      ELSE IF ~(check_build_commands \/ check_module = "True") THEN rest
                      ELSE IF tool.deploy_arg = {} THEN [raised |-> FALSE, cmd |-> com]
                      ELSE IF \E j \in (prog_name_index + 2)..Len(com) : com[j] \in tool.deploy_arg
                      THEN [raised |-> FALSE, cmd |-> com]
                      ELSE rest

\* Entries of the justification of the build-as-code check: <<text, n>>.
Just(text) == <<text, 0>>

\* ci_parsed_subcheck(ci_info)
ci_parsed_subcheck(ci_info) ==
    IF ci_info.bash_commands # <<>>
    THEN [certainty |-> CiParsedCertainty,
          justification |-> <<Just("The CI workflow files for this CI service are parsed.")>>]
    ELSE [certainty |-> 0,
          justification |-> <<Just("The CI workflow files for this CI service aren't parsed.")>>]

\* defaults.get_list("builder.pip.ci.deploy", "github_actions")
trusted_deploy_actions == {"pypa/gh-action-pypi-publish"}

\* The first callee of the call graph, from k on, that is an external or reusable
\* workflow with a trusted name (0 if there is none).
RECURSIVE FirstTrustedCallee(_, _)
FirstTrustedCallee(callgraph, k) ==
    IF k > Len(callgraph) THEN 0
    ELSE IF callgraph[k].name = "" \/ callgraph[k].node_type \notin {"EXTERNAL", "REUSABLE"}
    THEN FirstTrustedCallee(callgraph, k + 1)
    ELSE IF callgraph[k].name \in trusted_deploy_actions THEN k
    ELSE FirstTrustedCallee(callgraph, k + 1)

\* The third justification entry of a deploy sub-check.
StatusEntry(html_url) ==
    IF html_url # "" THEN Just("The status of the build can be seen at")
    ELSE Just("However, could not find a passing workflow run.")

\* deploy_action_subcheck(ctx, ci_info, ci_service, build_tool); keys holds the keys
\* of the returned dict.
deploy_action_subcheck(ci_info, tool, html_url) ==
    IF tool.name = "pip" /\ FirstTrustedCallee(ci_info.callgraph, 1) # 0
    THEN [certainty |-> DeployActionCertainty,
          justification |-> <<Just("To deploy"), Just("Deploy action"), StatusEntry(html_url)>>,
          keys |-> {"certainty", "justification", "deploy_command", "trigger_link",
                    "deploy_action_source_link", "html_url"},
          html_url |-> html_url]
    ELSE [certainty |-> 0, justification |-> <<>>,
          keys |-> {"certainty", "justification"}, html_url |-> ""]

\* The first bash command record, from k on, for which has_deploy_command finds a
\* command or raises.
RECURSIVE FirstDeployCommand(_, _, _)
FirstDeployCommand(bash_commands, tool, k) ==
    IF k > Len(bash_commands) THEN [raised |-> FALSE, cmd |-> <<>>]
    ELSE LET r == has_deploy_command(bash_commands[k].commands, tool, 1)
         IN  IF r.raised \/ r.cmd # <<>> THEN r
             ELSE FirstDeployCommand(bash_commands, tool, k + 1)

\* deploy_command_subcheck(ctx, ci_info, ci_service, build_tool)
deploy_command_subcheck(ci_info, tool, html_url) ==
    LET r == FirstDeployCommand(ci_info.bash_commands, tool, 1)
    IN  IF r.raised
        THEN [raised |-> TRUE, certainty |-> 0, justification |-> <<>>, keys |-> {},
              html_url |-> ""]
        ELSE IF r.cmd # <<>>
        THEN [raised |-> FALSE, certainty |-> DeployCommandCertainty,
              justification |-> <<Just("The target repository uses build tool to deploy"),
                                  Just("Deploy command"), StatusEntry(html_url)>>,
              keys |-> {"certainty", "justification", "deploy_cmd", "trigger_link",
                        "bash_source_link", "html_url"},
              html_url |-> html_url]
        ELSE [raised |-> FALSE, certainty |-> 0, justification |-> <<>>,
              keys |-> {"certainty", "justification"}, html_url |-> ""]

\* for unparsed_ci in (Jenkins, Travis, CircleCI, GitLabCI): isinstance(ci_service, unparsed_ci)
UnparsedCIServices == {"jenkins", "travis_ci", "circle_ci", "gitlab_ci"}

\* deploy_kws_subcheck(ctx, ci_service, build_tool); kws_config is the config_name
\* has_kws_in_config finds ("" if none).
deploy_kws_subcheck(ci_info, tool) ==
    IF /\ ci_info.service \in UnparsedCIServices
       /\ tool.ci_deploy_kws # {}
       /\ ci_info.kws_config # ""
    THEN [certainty |-> DeployKwsCertainty,
          justification |-> <<Just("The target repository uses keywords to deploy.")>>]
    ELSE [certainty |-> 0, justification |-> <<>>]

-----------------------------------------------------------------------------
(* BuildAsCodeCheck: the fusion of the certainties by the rule program *)

\* A world fixes which of the four probabilistic facts hold.
Worlds ==
    [ci_parsed : BOOLEAN, deploy_action : BOOLEAN, deploy_command : BOOLEAN,
     deploy_kws : BOOLEAN]

\* A :: ci_parsed :- ci_parsed_check(A).  (and B, C, D): the probability, in tenths,
\* that a fact with the given certainty has the truth value `holds`.
FactWeight(certainty, holds) == IF holds THEN certainty ELSE 10 - certainty

\* The probability of a world, in units of 10^-4.
WorldWeight(w, c) ==
    FactWeight(c.ci_parsed, w.ci_parsed) * FactWeight(c.deploy_action, w.deploy_action)
        * FactWeight(c.deploy_command, w.deploy_command) * FactWeight(c.deploy_kws, w.deploy_kws)

\* The second deploy_action_certainty rule read as requiring ci_parsed to fail.
DeployActionCertaintyFailsNegated(w) ==
    IF ~w.deploy_action THEN 100
    ELSE IF ~w.ci_parsed THEN ((100 - 80) * (100 - 15)) \div 100
    ELSE 100 - 80

\* 0.80 :: deploy_action_certainty :- deploy_action.
\* 0.15 :: deploy_action_certainty :- deploy_action, ci_parsed.
\* The probability, in hundredths, that no rule derives deploy_action_certainty.
DeployActionCertaintyFails(w) ==
    IF ~w.deploy_action THEN 100
    ELSE IF w.ci_parsed THEN ((100 - 80) * (100 - 15)) \div 100
    ELSE 100 - 80

\* 0.70 :: deploy_command_certainty :- deploy_command.
\* 0.15 :: deploy_command_certainty :- deploy_command, ci_parsed.
\* The probability, in units of 1/200, that no rule derives deploy_command_certainty.
DeployCommandCertaintyFails(w) ==
    IF ~w.deploy_command THEN 200
    ELSE IF w.ci_parsed THEN ((100 - 70) * (100 - 15)) \div 50
    ELSE 2 * (100 - 70)

\* 0.60 :: deploy_kws_certainty :- deploy_kws.
\* The probability, in fifths, that the rule does not derive deploy_kws_certainty.
DeployKwsCertaintyFails(w) == IF w.deploy_kws THEN (100 - 60) \div 20 ELSE 5

\* build_as_code_check :- deploy_action_certainty; deploy_command_certainty; deploy_kws_certainty.
\* The probability of build_as_code_check in a world, in units of 10^-5.
BuildAsCodeCheckHolds(w) ==
    100 * 200 * 5
        - DeployActionCertaintyFails(w) * DeployCommandCertaintyFails(w) * DeployKwsCertaintyFails(w)

RECURSIVE SumWorlds(_, _)
SumWorlds(W, c) ==
    IF W = {} THEN 0
    ELSE LET w == CHOOSE x \in W : TRUE
         IN  WorldWeight(w, c) * BuildAsCodeCheckHolds(w) + SumWorlds(W \ {w}, c)

\* Certainties in tenths, from 0 to 1.
Certainties == 0..10

\* query(build_as_code_check) for every assignment of certainties: the marginal
\* probability of build_as_code_check, in units of 10^-9.
Marginal ==
    [c \in [ci_parsed : Certainties, deploy_action : Certainties,
             deploy_command : Certainties, deploy_kws : Certainties] |->
        SumWorlds(Worlds, c)]

\* The fused confidence score for the certainties c (in tenths), in units of 10^-9.
FusedScore(c) == Marginal[c]

-----------------------------------------------------------------------------
(* BuildAsCodeCheck: the scheduler and run_check *)

\* The provenance template a CIInfo holds before any provenance is found.
EmptyPredicate ==
    [buildType |-> "", uri |-> "", sha1 |-> "", entryPoint |-> "", builder_id |-> "",
     buildInvocationId |-> ""]
ProvenanceTemplate == [predicate |-> EmptyPredicate]

BashCmd(commands) == [commands |-> commands, CI_path |-> ".github/workflows/ci.yaml"]

MvnDeploy == <<BashCmd(<< <<"mvn", "deploy">> >>)>>
PythonTwineUpload == <<BashCmd(<< <<"python", "-m", "twine", "upload">> >>)>>

\* The bash commands a parsed CI service may hold.
BashCommandLists ==
    { <<>>,
      MvnDeploy,
      <<BashCmd(<< <<"mvn", "test">> >>)>>,
      <<BashCmd(<< <<"mvn", "test">> >>), BashCmd(<< <<"/usr/bin/mvn", "-B", "deploy">> >>)>>,
      PythonTwineUpload,
      <<BashCmd(<< <<"python">>, <<"twine", "upload">> >>)>> }

\* A call graph with an internal workflow and a trusted external deploy action.
TrustedCallGraph ==
    << [name |-> "pypa/gh-action-pypi-publish", node_type |-> "INTERNAL"],
       [name |-> "pypa/gh-action-pypi-publish", node_type |-> "EXTERNAL"] >>

BACCIInfos ==
    {CIInfo("none", <<>>, <<>>, "", <<>>)}
    \cup {CIInfo("github_actions", b, <<>>, "", p) :
              b \in BashCommandLists, p \in {<<>>, <<ProvenanceTemplate>>}}
    \cup {CIInfo("github_actions", b, TrustedCallGraph, "", p) :
              b \in {<<>>, PythonTwineUpload}, p \in {<<>>, <<ProvenanceTemplate>>}}
    \cup {CIInfo("travis_ci", <<>>, <<>>, k, p) :
              k \in {"", ".travis.yml"}, p \in {<<>>, <<ProvenanceTemplate>>}}

\* What has_latest_run_passed may return.
HtmlUrls == {"", "https://host/o/r/actions/runs/1"}

\* The CI services of the contexts the scheduler is run on.
MaxScheduled == 1

\* The context a build-as-code check starts from, with at most n CI services.
BACContext(n) ==
    /\ PAIdle
    /\ PEIdle
    /\ FuseIdle
    /\ HDCIdle
    /\ package_registries = <<>>
    /\ ci_services \in SeqsUpTo(BACCIInfos, n)
    /\ is_inferred_prov \in BOOLEAN
    /\ repo_remote_path \in RepoURLs
    /\ max_download_size = DefaultMaxDownloadSize
    /\ check_result = NewCheckResult
    /\ build_tool \in BuildTools
    /\ si = 1
    /\ build_as_code_subchecks = <<>>
    /\ evaluated = <<>>
    /\ raised = ""

\* run_check is entered: the scheduler found the dependency FAILED, as required.
BACInit ==
    /\ BACContext(MaxServices)
    /\ bac_pc = "run_check"
    /\ check_results = [c \in {depends_on[1][1]} |-> depends_on[1][2]]

\* The scheduler is about to run the checks; the dependency has no result yet.
SchedInit ==
    /\ BACContext(MaxScheduled)
    /\ bac_pc = "dependency"
    /\ check_results = [c \in {depends_on[1][1]} |-> ""]

\* The check mcn_trusted_builder_level_three_1 has run and left a result status.
TrustedBuilderCheck ==
    /\ bac_pc = "dependency"
    /\ \E st \in CheckResultTypes :
          check_results' = [check_results EXCEPT ![depends_on[1][1]] = st]
    /\ bac_pc' = "schedule"
    /\ UNCHANGED <<ctxVars, paVars, peVars, fuseVars, hdcVars, build_tool, si, build_as_code_subchecks,
                   evaluated, raised>>

\* Every declared dependency has the required result status.
DependenciesMet(deps, results) ==
    \A k \in DOMAIN deps : results[deps[k][1]] = deps[k][2]

\* The scheduler: run the check's logic when the dependencies are met, else record
\* the skip status without running it.
Schedule ==
    /\ bac_pc = "schedule"
    /\ IF DependenciesMet(depends_on, check_results)
       THEN /\ bac_pc' = "run_check"
            /\ UNCHANGED check_result
       ELSE /\ bac_pc' = "done"
            /\ check_result' =
                  [check_result EXCEPT
                     !.result_type = result_on_skip,
                     !.justification = Append(@, Just("Skipped because of a dependency"))]
    /\ UNCHANGED <<package_registries, ci_services, is_inferred_prov, repo_remote_path,
                   max_download_size, paVars, peVars, fuseVars, hdcVars, build_tool, check_results, si,
                   build_as_code_subchecks, evaluated, raised>>

\* BuildAsCodeTable(...) rows
BuildAsCodeTable(tool_name, service, trigger, deploy_cmd, url, score) ==
    [build_tool_name |-> tool_name, ci_service_name |-> service, build_trigger |-> trigger,
     deploy_command |-> deploy_cmd, build_status_url |-> url, confidence_score |-> score]

\* run_check up to the loop over the CI services: without a build tool it fails.
RunCheck ==
    /\ bac_pc = "run_check"
    /\ IF HasBuildTool(build_tool)
       THEN /\ bac_pc' = "services"
            /\ UNCHANGED check_result
       ELSE /\ bac_pc' = "done"
            /\ check_result' =
                  [check_result EXCEPT
                     !.result_tables = <<BuildAsCodeTable("", "", "", "", "", -1)>>,
                     !.justification =
                         Append(@, Just("The target repository does not have a build tool.")),
                     !.result_type = "FAILED"]
    /\ UNCHANGED <<package_registries, ci_services, is_inferred_prov, repo_remote_path,
                   max_download_size, paVars, peVars, fuseVars, hdcVars, build_tool, check_results, si,
                   build_as_code_subchecks, evaluated, raised>>

\* The predicate of the first provenance after the writes made for inferred
\* provenance, up to the point where the KeyError is raised if it is.
InferredPredicate(predicate, ci_info, deploy_action, deploy_command, deploy_kws) ==
    LET base == [predicate EXCEPT
                    !.buildType = "Custom CI service",
                    !.uri = "remote_path@refs/heads/branch_name",
                    !.sha1 = "commit_sha"]
    IN  IF deploy_action.certainty # 0
        THEN [base EXCEPT !.buildInvocationId = deploy_action.html_url,
                          !.entryPoint = "trigger_link",
                          !.builder_id = "deploy_action_source_link"]
        ELSE IF deploy_command.certainty # 0
        THEN IF "deploy_action_source_link" \in deploy_command.keys
             THEN [base EXCEPT !.buildInvocationId = deploy_command.html_url,
                               !.entryPoint = "",
                               !.builder_id = "deploy_action_source_link"]
             ELSE base
        ELSE IF deploy_kws.certainty # 0
        THEN [base EXCEPT !.builder_id = "deploy_command", !.entryPoint = "deploy_command"]
        ELSE base

\* deploy_command["deploy_action_source_link"] is read and is no key of the dict.
RaisesKeyError(inferred, deploy_action, deploy_command) ==
    /\ inferred
    /\ deploy_action.certainty = 0
    /\ deploy_command.certainty # 0
    /\ "deploy_action_source_link" \notin deploy_command.keys

\* if confidence_score >= self.confidence_score_threshold
ReachesThreshold(score) == score >= confidence_score_threshold

\* One iteration of the loop of run_check over the CI services.
EvalService ==
    /\ bac_pc = "services"
    /\ si <= Len(ci_services)
    /\ IF ci_services[si].service = "none"
       THEN /\ si' = si + 1
            /\ UNCHANGED <<bac_pc, ci_services, check_result, build_as_code_subchecks,
                           evaluated, raised>>
       ELSE \E html_url \in HtmlUrls :
            LET ci_info == ci_services[si]
                ci_parsed == ci_parsed_subcheck(ci_info)
                deploy_action == deploy_action_subcheck(ci_info, build_tool, html_url)
                deploy_command == deploy_command_subcheck(ci_info, build_tool, html_url)
                deploy_kws == deploy_kws_subcheck(ci_info, build_tool)
                justification ==
                    (((check_result.justification \o ci_parsed.justification)
                        \o deploy_action.justification) \o deploy_command.justification)
                        \o deploy_kws.justification
                inferred == is_inferred_prov /\ ci_info.provenances # <<>>
                written ==
                    IF inferred
                    THEN [ci_services EXCEPT ![si].provenances[1].predicate =
                             InferredPredicate(@, ci_info, deploy_action, deploy_command, deploy_kws)]
                    ELSE ci_services
                certainties ==
                    [ci_parsed |-> ci_parsed.certainty, deploy_action |-> deploy_action.certainty,
                     deploy_command |-> deploy_command.certainty, deploy_kws |-> deploy_kws.certainty]
                confidence_score == FusedScore(certainties)
                used == IF inferred /\ deploy_action.certainty # 0 THEN deploy_action
                        ELSE [html_url |-> ""]
            IN  IF deploy_command.raised
                THEN /\ raised' = "IndexError"
                     /\ bac_pc' = "raised"
                     /\ UNCHANGED <<si, ci_services, check_result, build_as_code_subchecks,
                                    evaluated>>
                ELSE IF RaisesKeyError(inferred, deploy_action, deploy_command)
                THEN /\ raised' = "KeyError"
                     /\ bac_pc' = "raised"
                     /\ ci_services' = written
                     /\ check_result' = [check_result EXCEPT !.justification = justification]
                     /\ evaluated' = Append(evaluated, [service |-> si, certainties |-> certainties,
                                                        fused |-> FALSE, confidence_score |-> -1])
                     /\ UNCHANGED <<si, build_as_code_subchecks>>
                ELSE /\ ci_services' = written
                     /\ build_as_code_subchecks' = certainties
                     /\ evaluated' = Append(evaluated, [service |-> si, certainties |-> certainties,
                                                        fused |-> TRUE,
                                                        confidence_score |-> confidence_score])
                     /\ IF ReachesThreshold(confidence_score)
                        THEN /\ bac_pc' = "done"
                             /\ UNCHANGED si
                        ELSE /\ si' = si + 1
                             /\ UNCHANGED bac_pc
                     /\ check_result' =
                           [check_result EXCEPT
                              !.confidence_score = confidence_score,
                              !.justification =
                                  Append(justification,
                                         <<"certainties", certainties.ci_parsed,
                                           certainties.deploy_action, certainties.deploy_command,
                                           certainties.deploy_kws>>),
                              !.result_tables =
                                  <<BuildAsCodeTable(build_tool.name, ci_info.service,
                                        IF inferred /\ deploy_action.certainty # 0
                                        THEN "trigger_link" ELSE "",
                                        IF inferred /\ deploy_action.certainty # 0
                                        THEN "workflow_name"
                                        ELSE IF inferred /\ deploy_action.certainty = 0
                                                /\ deploy_command.certainty = 0
                                                /\ deploy_kws.certainty # 0
                                        THEN "config_name" ELSE "",
                                        used.html_url, confidence_score)>>,
                              !.result_type =
                                  IF ReachesThreshold(confidence_score) THEN "PASSED" ELSE @]
                     /\ UNCHANGED raised
    /\ UNCHANGED <<package_registries, is_inferred_prov, repo_remote_path, max_download_size,
                   paVars, peVars, fuseVars, hdcVars, build_tool, check_results>>

\* The loop over the CI services has ended without a PASSED: the check fails.
NoServiceDeploys ==
    /\ bac_pc = "services"
    /\ si > Len(ci_services)
    /\ check_result' =
          [check_result EXCEPT
             !.justification = Append(@, Just("The target repository does not use the build tool to deploy.")),
             !.result_tables = <<BuildAsCodeTable(build_tool.name, "", "", "", "", -1)>>,
             !.result_type = "FAILED"]
    /\ bac_pc' = "done"
    /\ UNCHANGED <<package_registries, ci_services, is_inferred_prov, repo_remote_path,
                   max_download_size, paVars, peVars, fuseVars, hdcVars, build_tool, check_results, si,
                   build_as_code_subchecks, evaluated, raised>>

BACNext ==
    \/ RunCheck
    \/ EvalService
    \/ NoServiceDeploys

SpecBAC == BACInit /\ [][BACNext]_vars

SchedNext ==
    \/ TrustedBuilderCheck
    \/ Schedule
    \/ RunCheck
    \/ EvalService
    \/ NoServiceDeploys

SpecSched == SchedInit /\ [][SchedNext]_vars

-----------------------------------------------------------------------------
(* The rule program evaluated on every assignment of certainties *)

SubcheckNames == {"ci_parsed", "deploy_action", "deploy_command", "deploy_kws"}

FuseInit ==
    /\ CtxIdle
    /\ PAIdle
    /\ PEIdle
    /\ bac_pc = "idle" /\ build_tool = <<>> /\ check_results = <<>> /\ si = 0
    /\ evaluated = <<>> /\ raised = ""
    /\ build_as_code_subchecks \in
          [ci_parsed : Certainties, deploy_action : Certainties,
           deploy_command : Certainties, deploy_kws : Certainties]
    /\ fuse_pc = "set"
    /\ fused_score = -1
    /\ previous = <<>>
    /\ HDCIdle

\* result = get_evaluatable().create_from(prolog_string).evaluate()
Evaluate ==
    /\ fuse_pc = "set"
    /\ fused_score' = FusedScore(build_as_code_subchecks)
    /\ fuse_pc' = "evaluated"
    /\ UNCHANGED <<ctxVars, paVars, peVars, bacVars, previous, hdcVars>>

\* One certainty is changed from 0 to 1 and the program is evaluated again.
RaiseCertainty ==
    /\ fuse_pc = "evaluated"
    /\ \E f \in SubcheckNames :
          /\ build_as_code_subchecks[f] = 0
          /\ build_as_code_subchecks' = [build_as_code_subchecks EXCEPT ![f] = 10]
    /\ previous' = [certainties |-> build_as_code_subchecks, score |-> fused_score]
    /\ fused_score' = FusedScore(build_as_code_subchecks')
    /\ fuse_pc' = "raised"
    /\ UNCHANGED <<ctxVars, paVars, peVars, bac_pc, build_tool, check_results, si,
                   evaluated, raised, hdcVars>>

FuseNext ==
    \/ Evaluate
    \/ RaiseCertainty

SpecFuse == FuseInit /\ [][FuseNext]_vars

-----------------------------------------------------------------------------
(* has_deploy_command called on its own *)

\* The longest list of commands handed to has_deploy_command.
MaxCommands == 2

\* The commands of the lists: the empty command, a command with an empty program
\* name, commands that stop at an interpreter or at its flag, commands of the build
\* tools with and without a deploy argument, and program names given as paths.
HDCCommands ==
    { <<>>, <<"">>, <<"bin/">>,
      <<"python">>, <<"python", "-m">>, <<"python", "x">>, <<"python", "-m", "twine">>,
      <<"python", "-m", "twine", "upload">>, <<"twine", "upload">>, <<"twine", "check">>,
      <<"mvn", "deploy">>, <<"mvn", "test">>, <<"/usr/bin/mvn", "-B", "deploy">> }

\* The arguments of a call of has_deploy_command(commands, build_tool).
HDCInit ==
    /\ CtxIdle
    /\ PAIdle
    /\ PEIdle
    /\ FuseIdle
    /\ bac_pc = "idle" /\ check_results = <<>> /\ si = 0
    /\ build_as_code_subchecks = <<>> /\ evaluated = <<>> /\ raised = ""
    /\ build_tool \in {Maven, Pip}
    /\ hdc_pc = "called"
    /\ hdc_commands \in SeqsUpTo(HDCCommands, MaxCommands)
    /\ hdc_deploy_cmd = <<>>

\* The call returns str(com) for the first deploy command, or "".
HDCReturn ==
    /\ hdc_pc = "called"
    /\ LET result == has_deploy_command(hdc_commands, build_tool, 1)
       IN  /\ ~result.raised
           /\ hdc_deploy_cmd' = result.cmd
    /\ hdc_pc' = "returned"
    /\ UNCHANGED <<ctxVars, paVars, peVars, bacVars, fuseVars, hdc_commands>>

\* The call is left by the IndexError of com[1] or com[2].
HDCRaise ==
    /\ hdc_pc = "called"
    /\ has_deploy_command(hdc_commands, build_tool, 1).raised
    /\ hdc_pc' = "raised"
    /\ UNCHANGED <<ctxVars, paVars, peVars, bacVars, fuseVars, hdc_commands, hdc_deploy_cmd>>

HDCNext ==
    \/ HDCReturn
    \/ HDCRaise

SpecHDC == HDCInit /\ [][HDCNext]_vars

-----------------------------------------------------------------------------
(* Claims about the policy engine CLI *)

\* C5: in evaluate mode the process exits non-zero if and only if the result mapping
\* holds the relation failed_policies with at least one row, whatever the rows hold.
C5_ExitNonZeroIffFailedPoliciesNonEmpty ==
    (pe_pc = "exited" /\ ~show_prelude) =>
        ((exit_code # 0) <=>
            ("failed_policies" \in DOMAIN res /\ Len(res["failed_policies"]) >= 1))

\* C5 (supporting): --show-prelude always exits 0, and an absent or empty
\* failed_policies relation exits 0.
C5_FalsyCases ==
    pe_pc = "exited" =>
        /\ show_prelude => exit_code = 0
        /\ "failed_policies" \notin DOMAIN res => exit_code = 0
        /\ ("failed_policies" \in DOMAIN res /\ res["failed_policies"] = <<>>) => exit_code = 0

-----------------------------------------------------------------------------
(* Claims about ProvenanceAvailableCheck *)

Oversized(asset) == asset.size > max_download_size

\* C1: once the size guard of a matched pairing has run over the candidate assets,
\* the size-violation error is raised if and only if some asset's declared size is
\* strictly greater than the configured maximum; otherwise (every size <= maximum,
\* also exactly the maximum) nothing is raised and the download step is entered.
C1_SizeGuardStrict ==
    pc \in {"except", "obtain_witness"} =>
        IF \E a \in Range(provenance_assets) : Oversized(a)
        THEN /\ pc = "except"
             /\ error # NoError
             /\ \E a \in Range(provenance_assets) :
                    Oversized(a) /\ error = SizeViolationMsg(a, max_download_size)
        ELSE /\ pc = "obtain_witness"
             /\ error = NoError
             /\ temp_dir

\* C1 witness: a list with an asset exactly at the maximum and one just above it was
\* rejected for the latter.
C1_Witness ==
    /\ pc = "except"
    /\ \E a \in Range(provenance_assets) : a.size = max_download_size
    /\ \E a \in Range(provenance_assets) :
           a.size = max_download_size + 1 /\ error = SizeViolationMsg(a, max_download_size)

\* C1 second case reached: a list whose largest asset is exactly at the maximum
\* passed the guard.
C1_AtMaxPasses ==
    /\ pc = "obtain_witness"
    /\ \E a \in Range(provenance_assets) : a.size = max_download_size

\* C2: every WitnessProvenance stored on a PackageRegistryInfo (and every one being
\* collected) embeds a repository URL equal to the analysed repository's remote URL.
C2_StoredWitnessMatchesRepo ==
    /\ \A p \in Range(provenances) :
          pc = "obtain_witness" => p.payload.repo_url = repo_remote_path
    /\ \A i \in DOMAIN package_registries :
          \A p \in Range(package_registries[i].provenances) :
             p.payload.repo_url = repo_remote_path

\* C3: an oversized provenance asset on any discovery path (registry or CI) ends the
\* run with the size-violation error, never with a result reached past the asset.
C3_OversizedAbortsEverywhere ==
    pc = "done" =>
        \A c \in DOMAIN ci_services :
            \A a \in Range(ci_services[c].provenance_assets) :
                Oversized(a) => /\ error # NoError
                                /\ check_result.result_type = "FAILED"

\* True when the log holds a call to a CI service.
CalledCI == \E k \in DOMAIN calls : calls[k][1] \in {"get_latest_release", "get_assets"}

\* C4: when registry discovery raised the size violation, the run ends FAILED with
\* the justification being exactly the error message, no CI service was contacted,
\* no fact record is written and is_inferred_prov is as it was on entry; nothing is
\* reported as found.
C4_SizeViolationFailsCheck ==
    error # NoError =>
        /\ pc \in {"except", "done"}
        /\ ~CalledCI
        /\ ci_services = entry.ci_services
        /\ is_inferred_prov = entry.is_inferred_prov
        /\ found = <<>>
        /\ check_result.result_tables = <<>>
        /\ pc = "done" =>
              /\ check_result.result_type = "FAILED"
              /\ check_result.justification = <<error>>

\* C4 witness: two candidate assets, one within the limit and one oversized, with a
\* CI service available for a fallback: the run has ended.
C4_Witness ==
    /\ pc = "done"
    /\ error # NoError
    /\ Len(provenance_assets) = 2
    /\ \E a \in Range(provenance_assets) : ~Oversized(a)
    /\ \E c \in DOMAIN ci_services : ci_services[c].service # "none"
    /\ is_inferred_prov

-----------------------------------------------------------------------------
(* Claims about BuildAsCodeCheck *)

\* True when run_check has been entered and has not yet ended.
InRunCheck == bac_pc \in {"run_check", "services", "raised"}

\* True when run_check has ended, by a return or by an exception.
Ended == bac_pc \in {"done", "raised"}

\* C6: the check declares the single dependency (mcn_trusted_builder_level_three_1,
\* FAILED) and the skip status PASSED; when the dependency's result is not FAILED the
\* scheduler never enters run_check and records PASSED, and when it is FAILED the
\* logic of run_check is executed and decides the result.
C6_SkippedUnlessDependencyFailed ==
    /\ depends_on = << <<"mcn_trusted_builder_level_three_1", "FAILED">> >>
    /\ InRunCheck => check_results["mcn_trusted_builder_level_three_1"] = "FAILED"
    /\ (bac_pc = "done" /\ check_results["mcn_trusted_builder_level_three_1"] # "FAILED") =>
          /\ check_result.result_type = "PASSED"
          /\ check_result.result_tables = <<>>
          /\ check_result.justification = <<Just("Skipped because of a dependency")>>
          /\ evaluated = <<>>
          /\ raised = ""
    /\ (bac_pc = "done" /\ check_results["mcn_trusted_builder_level_three_1"] = "FAILED") =>
          /\ check_result.result_tables # <<>>
          /\ check_result.justification # <<Just("Skipped because of a dependency")>>

\* C6 witness: with a build tool and a deploying CI service at hand, the check was
\* skipped because the dependency had PASSED.
C6_Witness ==
    /\ bac_pc = "done"
    /\ check_results["mcn_trusted_builder_level_three_1"] = "PASSED"
    /\ build_tool = Maven
    /\ \E c \in DOMAIN ci_services : ci_services[c].bash_commands = MvnDeploy
    /\ check_result.result_type = "PASSED"

\* C7: without a build tool (none, or a NoneBuildTool) run_check returns FAILED with
\* the justification 'The target repository does not have a build tool.', runs no
\* sub-check and no fusion, and raises nothing, whatever the CI services are.
C7_NoBuildToolFails ==
    (build_tool.kind \in {"absent", "NoneBuildTool"} /\ bac_pc # "run_check") =>
        /\ bac_pc = "done"
        /\ check_result.result_type = "FAILED"
        /\ check_result.justification =
              <<Just("The target repository does not have a build tool.")>>
        /\ evaluated = <<>>
        /\ build_as_code_subchecks = <<>>
        /\ check_result.confidence_score = -1
        /\ raised = ""

\* C7 witness: a NoneBuildTool and a full list of CI services, one of which would
\* deploy with Maven: the check has failed.
C7_Witness ==
    /\ bac_pc = "done"
    /\ build_tool = NoneBuildTool
    /\ Len(ci_services) = MaxServices
    /\ \E c \in DOMAIN ci_services : ci_services[c].bash_commands = MvnDeploy
    /\ check_result.result_type = "FAILED"

\* True when some command of the CI service names the deploy tool of the build tool
\* as its program and holds a deploy argument after it.
HasDeployToolCommand(ci_info, tool) ==
    \E b \in DOMAIN ci_info.bash_commands :
        \E k \in DOMAIN ci_info.bash_commands[b].commands :
            LET com == ci_info.bash_commands[b].commands[k]
            IN  /\ com # <<>>
                /\ Basename(com[1]) \in DeployTool(tool)
                /\ \E j \in 2..Len(com) : com[j] \in tool.deploy_arg

\* C8: with a build tool and exactly one CI service holding a command of the deploy
\* tool with a deploy argument, run_check ends PASSED, the deploy-command sub-check
\* having yielded 0.7 and the fused score being at least the threshold 0.3.
C8_DeployCommandPasses ==
    (/\ Ended
     /\ build_tool.kind = "tool"
     /\ Len(ci_services) = 1
     /\ HasDeployToolCommand(ci_services[1], build_tool)) =>
        /\ raised = ""
        /\ check_result.result_type = "PASSED"
        /\ Len(evaluated) = 1
        /\ evaluated[1].certainties.deploy_command = 7
        /\ check_result.confidence_score >= 300000000

\* C8 without inferred provenance to write and without a command that stops at an
\* interpreter: the scenario ends as described.
C8_WhenNothingRaises ==
    (/\ Ended
     /\ raised = ""
     /\ build_tool.kind = "tool"
     /\ Len(ci_services) = 1
     /\ HasDeployToolCommand(ci_services[1], build_tool)) =>
        /\ check_result.result_type = "PASSED"
        /\ Len(evaluated) = 1
        /\ evaluated[1].certainties.deploy_command = 7
        /\ check_result.confidence_score >= 300000000

\* C9: the fused score is a function of the four certainties alone, and changing one
\* certainty from 0 to 1 with the other three fixed never decreases it.
C9_FusionDeterministicMonotone ==
    /\ fuse_pc \in {"evaluated", "raised"} =>
          /\ fused_score = FusedScore(build_as_code_subchecks)
          /\ fused_score \in 0..1000000000
    /\ fuse_pc = "raised" =>
          /\ \E f \in SubcheckNames :
                /\ previous.certainties[f] = 0
                /\ build_as_code_subchecks = [previous.certainties EXCEPT ![f] = 10]
          /\ fused_score >= previous.score

\* C9 witness: with a deploy action of certainty 0.8 and nothing else, ci_parsed was
\* changed from 0 to 1 and the fused score grew.
C9_Witness ==
    /\ fuse_pc = "raised"
    /\ previous.certainties =
          [ci_parsed |-> 0, deploy_action |-> 8, deploy_command |-> 0, deploy_kws |-> 0]
    /\ build_as_code_subchecks.ci_parsed = 10
    /\ previous.score = 640000000
    /\ fused_score = 664000000

\* The CI services evaluated are exactly the non-None services up to the one at which
\* the loop stopped, in list order.
EvaluatedInListOrder ==
    /\ \A k \in DOMAIN evaluated : ci_services[evaluated[k].service].service # "none"
    /\ \A k \in DOMAIN evaluated : \A m \in DOMAIN evaluated :
          k < m => evaluated[k].service < evaluated[m].service
    /\ \A k \in DOMAIN evaluated :
          k < Len(evaluated) => evaluated[k].confidence_score < 300000000

\* C10: with a build tool, run_check returns PASSED exactly when the fused score of
\* some non-None CI service is at least 0.3, the services being evaluated in list
\* order up to the first that reaches the threshold; otherwise it returns FAILED.
C10_PassedIffSomeServiceReachesThreshold ==
    (Ended /\ build_tool.kind = "tool") =>
        /\ bac_pc = "done"
        /\ check_result.result_type \in {"PASSED", "FAILED"}
        /\ check_result.result_type = "PASSED" <=>
              \E k \in DOMAIN evaluated : evaluated[k].confidence_score >= 300000000
        /\ EvaluatedInListOrder
        /\ check_result.result_type = "FAILED" =>
              \A c \in DOMAIN ci_services :
                  ci_services[c].service # "none" =>
                      \E k \in DOMAIN evaluated : evaluated[k].service = c

\* C10 for the runs that return: the decision is as described.
C10_WhenRunCheckReturns ==
    (bac_pc = "done" /\ build_tool.kind = "tool") =>
        /\ check_result.result_type \in {"PASSED", "FAILED"}
        /\ check_result.result_type = "PASSED" <=>
              \E k \in DOMAIN evaluated : evaluated[k].confidence_score >= 300000000
        /\ EvaluatedInListOrder
        /\ check_result.result_type = "FAILED" =>
              \A c \in DOMAIN ci_services :
                  ci_services[c].service # "none" =>
                      \E k \in DOMAIN evaluated : evaluated[k].service = c

-----------------------------------------------------------------------------
(* Claims about the order of discovery in ProvenanceAvailableCheck *)

\* The indices of the pairings (or CI services) on which `what` was called, in call order.
CalledOn(log, what) ==
    LET made == SelectSeq(log, LAMBDA e : e[1] = what)
    IN  [k \in DOMAIN made |-> made[k][2]]

\* True when the sequence of numbers s is strictly increasing.
StrictlyIncreasing(s) == \A k \in DOMAIN s : \A m \in DOMAIN s : k < m => s[k] < s[m]

\* C11: the registry search queries the pairings in list order, only those with the
\* asset listing (Gradle on JFrog), passing over those that yield nothing; once a
\* pairing has yielded a candidate asset the search stays at it: no later pairing is
\* queried and no other pairing's provenances are modified, also when no asset of the
\* pairing passes download, parsing or witness authentication.
C11_StopsAtFirstPairingWithAssets ==
    /\ [](LET fetched == CalledOn(calls, "fetch_assets")
          IN  /\ StrictlyIncreasing(fetched)
              /\ \A j \in Range(fetched) :
                    /\ MatchesGradleJFrog(entry.package_registries[j])
                    /\ j <= ri
              /\ \A j \in DOMAIN package_registries :
                    (j < ri /\ MatchesGradleJFrog(entry.package_registries[j])) =>
                        j \in Range(fetched)
              /\ \A j \in DOMAIN package_registries :
                    (j # ri \/ provenance_assets = <<>>) =>
                        package_registries[j] = entry.package_registries[j])
    /\ [][provenance_assets # <<>> =>
            /\ provenance_assets' = provenance_assets
            /\ ri' = ri
            /\ CalledOn(calls', "fetch_assets") = CalledOn(calls, "fetch_assets")]_vars

\* C11 witness: of two Gradle/JFrog pairings the first yielded assets, none of which
\* became a stored provenance; the run ended without a query of the second.
C11_Witness ==
    /\ pc = "done"
    /\ Len(package_registries) = 2
    /\ \A j \in DOMAIN package_registries : MatchesGradleJFrog(package_registries[j])
    /\ provenance_assets # <<>>
    /\ package_registries[1].provenances = <<>>
    /\ CalledOn(calls, "fetch_assets") = <<1>>
    /\ check_result.result_type = "PASSED"

\* True when find_provenance_assets_on_ci_services has been called.
CIAttempted ==
    \E k \in DOMAIN calls : calls[k][1] = "find_provenance_assets_on_ci_services"

\* True when the registry search has ended, by a return or by an exception.
RegistrySearchOver == pc \notin {"package_registries", "size_guard", "obtain_witness"}

\* C12: the CI fallback is attempted exactly when the registry search has ended
\* without an error and with no asset; when the registry search has an asset to
\* return, no CI service is contacted and no CIInfo record is modified.
C12_CIFallbackIffRegistryEmpty ==
    /\ CIAttempted <=>
          (RegistrySearchOver /\ error = NoError /\ provenance_assets = <<>>)
    /\ CalledCI => CIAttempted
    /\ (~CIAttempted \/ provenance_assets # <<>>) =>
          /\ ~CalledCI
          /\ ci_services = entry.ci_services
          /\ ci = 1

\* C12 witness: the registry search returned assets of which none gave a stored
\* provenance; a GitHub Actions service was at hand and was not contacted.
C12_Witness ==
    /\ pc = "done"
    /\ found # <<>>
    /\ found = provenance_assets
    /\ \A j \in DOMAIN package_registries : package_registries[j].provenances = <<>>
    /\ \E c \in DOMAIN ci_services : ci_services[c].service = "github_actions"
    /\ ~CalledCI
    /\ ci_services = entry.ci_services

\* C13: the CI fallback fetches the latest release of the CI services in list order,
\* of each at most once and of no NoneCIService, passing over the services without a
\* release or without provenance assets; at the first service whose release has
\* provenance assets it stops: no later service is contacted, and no service but
\* that one has its provenance_assets or provenances modified (a later one nothing).
C13_CISearchStopsAtFirstRelease ==
    /\ [](LET released == CalledOn(calls, "get_latest_release")
          IN  /\ StrictlyIncreasing(released)
              /\ \A j \in Range(released) :
                    entry.ci_services[j].service # "none" /\ j <= ci
              /\ Range(CalledOn(calls, "get_assets")) \subseteq Range(released)
              /\ \A j \in DOMAIN ci_services :
                    /\ (j < ci /\ entry.ci_services[j].service # "none") =>
                           j \in Range(released)
                    /\ j > ci => ci_services[j] = entry.ci_services[j]
                    /\ ci_services[j].service = "none" =>
                           ci_services[j] = entry.ci_services[j]
                    /\ j # ci =>
                           /\ ci_services[j].provenance_assets =
                                 entry.ci_services[j].provenance_assets
                           /\ ci_services[j].provenances = entry.ci_services[j].provenances
                           /\ ci_services[j].latest_release.assets = <<>>)
    /\ [][(ci \in DOMAIN ci_services /\ ci_services[ci].provenance_assets # <<>>) =>
            /\ ci' = ci
            /\ CalledOn(calls', "get_latest_release") = CalledOn(calls, "get_latest_release")
            /\ CalledOn(calls', "get_assets") = CalledOn(calls, "get_assets")]_vars

\* C13 witness: of two GitHub Actions services the release of the first had
\* provenance assets; the run ended with the second never contacted.
C13_Witness ==
    /\ pc = "done"
    /\ Len(ci_services) = 2
    /\ \A c \in DOMAIN ci_services : ci_services[c].service = "github_actions"
    /\ ci_services[1].provenance_assets # <<>>
    /\ CalledOn(calls, "get_latest_release") = <<1>>
    /\ ci_services[2] = entry.ci_services[2]

-----------------------------------------------------------------------------
(* Claims about the download steps of ProvenanceAvailableCheck *)

\* The names of the first n assets of a list, in order.
Names(assets, n) == [k \in 1..n |-> assets[k].name]

\* The names of the first n assets of a list that are within the size limit, in order.
RECURSIVE NamesWithinLimit(_, _)
NamesWithinLimit(assets, n) ==
    IF n = 0 THEN <<>>
    ELSE IF Oversized(assets[n]) THEN NamesWithinLimit(assets, n - 1)
    ELSE Append(NamesWithinLimit(assets, n - 1), assets[n].name)

\* The number of assets of the current download loop that have been gone through.
GoneThrough(assets) ==
    IF pc \in {"obtain_witness", "ci_download"} THEN ai - 1
    ELSE IF pc = "raised" THEN ai
    ELSE Len(assets)

\* C14: a failed download or a failed parse skips only that asset: the downloads
\* attempted are those of all candidate assets gone through so far (on the CI path
\* those within the size limit), in input order, however many of them failed; no
\* error is recorded for the check, and nothing is raised but by an exception that
\* is neither of the two failures.
C14_FailureSkipsOnlyThatAsset ==
    /\ (provenance_assets # <<>> /\ error = NoError /\ pc # "size_guard") =>
          /\ ai <= Len(provenance_assets) + 1
          /\ CalledOn(calls, "download") =
                Names(provenance_assets, GoneThrough(provenance_assets))
    /\ (pc \in {"ci_download", "decide", "done", "raised"} /\ provenance_assets = <<>>
          /\ ci \in DOMAIN ci_services) =>
          /\ ai <= Len(ci_services[ci].provenance_assets) + 1
          /\ CalledOn(calls, "download") =
                NamesWithinLimit(ci_services[ci].provenance_assets,
                                 GoneThrough(ci_services[ci].provenance_assets))
    /\ CalledOn(calls, "download") # <<>> => error = NoError
    /\ pc = "raised" => calls[Len(calls)][1] = "raise"

\* C14 witness: of two registry assets the first failed (download, parse or
\* authentication) and the second was still downloaded and gave a provenance.
C14_Witness ==
    /\ pc = "done"
    /\ Len(provenance_assets) = 2
    /\ CalledOn(calls, "download") = Names(provenance_assets, 2)
    /\ Len(package_registries[ri].provenances) = 1
    /\ package_registries[ri].provenances[1].asset = provenance_assets[2]
    /\ error = NoError

\* True when a payload downloaded and parsed from the asset is retained on some
\* PackageRegistryInfo or CIInfo record.
HasRetainedPayload(asset) ==
    \/ \E j \in DOMAIN package_registries :
          \E p \in Range(package_registries[j].provenances) : p.asset = asset
    \/ \E c \in DOMAIN ci_services :
          \E p \in Range(ci_services[c].provenances) : p.asset = asset

\* C15: every asset of the sequence discovery returned (and so every asset named in
\* the justification and the fact records of a PASSED result) has a downloaded and
\* parsed payload retained on its PackageRegistryInfo or CIInfo.
C15_ReturnedAssetsHavePayloads ==
    pc \in {"decide", "done"} =>
        \A k \in DOMAIN found : HasRetainedPayload(found[k])

\* C16: the temporary directory of a download step exists only while the loop of that
\* step runs: it is gone once the step has ended, by its return or by an exception
\* raised in the loop, and no other step of the run finds or reuses it.
C16_TempDirRemovedOnEveryExit ==
    /\ temp_dir <=> pc \in {"obtain_witness", "ci_download"}
    /\ pc \in {"decide", "done", "raised", "except"} => ~temp_dir
    /\ Len(CalledOn(calls, "TemporaryDirectory")) <= 1
    /\ CalledOn(calls, "download") # <<>> => Len(CalledOn(calls, "TemporaryDirectory")) = 1
    /\ temp_dir => CalledOn(calls, "cleanup") = <<>>

\* C16 witness: an exception was raised at the second of two assets of a download
\* loop, after the first had been skipped; the directory is gone.
C16_Witness ==
    /\ pc = "raised"
    /\ ai = 2
    /\ Len(CalledOn(calls, "download")) = 2
    /\ provenances = <<>>
    /\ ~temp_dir

\* C17: on the registry path the size guard runs over all candidate assets of the
\* pairing before any download: when some candidate exceeds the maximum, no asset of
\* the pairing is downloaded, the within-limit ones listed before it included, and
\* no temporary directory is created.
C17_GuardBeforeAnyDownload ==
    /\ pc = "size_guard" => CalledOn(calls, "download") = <<>>
    /\ (\E a \in Range(provenance_assets) : Oversized(a)) =>
          /\ CalledOn(calls, "download") = <<>>
          /\ CalledOn(calls, "TemporaryDirectory") = <<>>
          /\ ~temp_dir
          /\ pc \in {"size_guard", "except", "done"}
          /\ pc # "size_guard" => error # NoError

\* C17 witness: a within-limit asset was listed before an oversized one; the run has
\* ended on the violation with nothing downloaded.
C17_Witness ==
    /\ pc = "done"
    /\ Len(provenance_assets) = 2
    /\ ~Oversized(provenance_assets[1])
    /\ Oversized(provenance_assets[2])
    /\ error = SizeViolationMsg(provenance_assets[2], max_download_size)
    /\ CalledOn(calls, "download") = <<>>

-----------------------------------------------------------------------------
(* Claims about the result of ProvenanceAvailableCheck *)

\* C18: run_check returns PASSED exactly when discovery returned a non-empty asset
\* sequence; then is_inferred_prov is False and there is one fact record (asset name,
\* asset URL) per returned asset, in the returned order; when it returns FAILED no
\* fact record is written and is_inferred_prov is as on entry.
C18_PassedIffAssetsFound ==
    pc = "done" =>
        /\ check_result.result_type \in {"PASSED", "FAILED"}
        /\ check_result.result_type = "PASSED" <=> found # <<>>
        /\ check_result.result_type = "PASSED" =>
              /\ is_inferred_prov = FALSE
              /\ DOMAIN check_result.result_tables = DOMAIN found
              /\ \A k \in DOMAIN found :
                    check_result.result_tables[k] =
                        [asset_name |-> found[k].name, asset_url |-> found[k].url]
              /\ check_result.justification =
                    <<Msg("Found provenance in release assets:")>>
                        \o [k \in DOMAIN found |-> AssetName(found[k])]
        /\ check_result.result_type = "FAILED" =>
              /\ check_result.result_tables = <<>>
              /\ is_inferred_prov = entry.is_inferred_prov

\* C18 witness: two assets were returned while is_inferred_prov was True on entry;
\* the check has passed.
C18_Witness ==
    /\ pc = "done"
    /\ Len(found) = 2
    /\ entry.is_inferred_prov
    /\ ~is_inferred_prov
    /\ Len(check_result.result_tables) = 2
    /\ check_result.result_type = "PASSED"

-----------------------------------------------------------------------------
(* Claims about the rule program of BuildAsCodeCheck *)

\* The certainties of a trusted deploy action alone, with ci_parsed at certainty p.
TrustedActionOnly(p) ==
    [ci_parsed |-> p, deploy_action |-> 10, deploy_command |-> 0, deploy_kws |-> 0]

\* C19: with deploy_action at certainty 1 and deploy_command, deploy_kws at 0 the
\* fused score is 0.80 when ci_parsed is at 0 and 0.80 + 0.15 = 0.95 when ci_parsed
\* is at 1.
C19_TrustedActionAdditive ==
    fuse_pc \in {"evaluated", "raised"} =>
        /\ build_as_code_subchecks = TrustedActionOnly(0) => fused_score = 800000000
        /\ build_as_code_subchecks = TrustedActionOnly(10) => fused_score = 950000000

\* C19, what the program gives: 0.80 with ci_parsed at 0, and with ci_parsed at 1 the
\* two rules for deploy_action_certainty as independent causes,
\* 1 - (1 - 0.80) * (1 - 0.15) = 0.83.
C19_TrustedActionNoisyOr ==
    fuse_pc \in {"evaluated", "raised"} =>
        /\ build_as_code_subchecks = TrustedActionOnly(0) => fused_score = 800000000
        /\ build_as_code_subchecks = TrustedActionOnly(10) => fused_score = 830000000

-----------------------------------------------------------------------------
(* Claims about the justification of BuildAsCodeCheck *)

\* The justification entry holding the certainties of the four sub-checks.
CertaintiesEntry(c) ==
    <<"certainties", c.ci_parsed, c.deploy_action, c.deploy_command, c.deploy_kws>>

\* The number of justification entries one evaluated CI service leaves: those of its
\* sub-checks (1, 0 or 3, 0 or 3, 0 or 1) and the entry of the certainties.
BlockLen(c) ==
    2 + (IF c.deploy_action # 0 THEN 3 ELSE 0) + (IF c.deploy_command # 0 THEN 3 ELSE 0)
      + (IF c.deploy_kws # 0 THEN 1 ELSE 0)

\* The index of the last justification entry of the k-th evaluated CI service.
RECURSIVE EndOfBlock(_)
EndOfBlock(k) ==
    IF k = 0 THEN 0 ELSE EndOfBlock(k - 1) + BlockLen(evaluated[k].certainties)

\* The justification holds, for the k-th evaluated CI service, the entries of its
\* sub-checks followed by its certainties, after those of the services before it.
RetainsCertainties(k) ==
    LET j == check_result.justification
        b == EndOfBlock(k - 1)
        e == EndOfBlock(k)
        c == evaluated[k].certainties
    IN  /\ e <= Len(j)
        /\ j[e] = CertaintiesEntry(c)
        /\ j[b + 1] = IF c.ci_parsed # 0
                      THEN Just("The CI workflow files for this CI service are parsed.")
                      ELSE Just("The CI workflow files for this CI service aren't parsed.")
        /\ \A i \in (b + 1)..(e - 1) : j[i][1] # "certainties"

\* C20: for every CI service whose sub-checks were run, the justification holds the
\* four certainties in the order ci_parsed, deploy_action, deploy_command,
\* deploy_kws, after the service's sub-check entries; the entries of the services
\* evaluated earlier stay where they were.
C20_CertaintiesRetainedInOrder ==
    \A k \in DOMAIN evaluated : RetainsCertainties(k)

\* C20 for the runs in which run_check raises nothing: the certainties are retained.
C20_WhenNothingRaises ==
    raised = "" => \A k \in DOMAIN evaluated : RetainsCertainties(k)

\* The evaluated CI services of the case C21 singles out: provenance is inferred, the
\* CI record holds a provenance payload, deploy_action yielded 0 and deploy_command
\* did not.
InferredFromDeployCommand ==
    {k \in DOMAIN evaluated :
        /\ is_inferred_prov
        /\ ci_services[evaluated[k].service].provenances # <<>>
        /\ evaluated[k].certainties.deploy_action = 0
        /\ evaluated[k].certainties.deploy_command # 0}

\* C21: run_check never raises and ends PASSED or FAILED; when provenance is inferred,
\* the CI record holds a payload, deploy_action yielded 0 and deploy_command did not,
\* the predicate of the first payload gets builder.id, configSource.entryPoint and
\* metadata.buildInvocationId from the deploy-command result and the run goes on to
\* the fusion of the certainties.
C21_RunCheckNeverRaises ==
    /\ raised = ""
    /\ bac_pc # "raised"
    /\ bac_pc = "done" => check_result.result_type \in {"PASSED", "FAILED"}
    /\ \A k \in InferredFromDeployCommand :
          LET predicate == ci_services[evaluated[k].service].provenances[1].predicate
          IN  /\ evaluated[k].fused
              /\ predicate.builder_id = "deploy_action_source_link"
              /\ predicate.entryPoint = ""
              /\ predicate.buildInvocationId \in HtmlUrls

\* C21 outside that case and without a command that stops at an interpreter: every
\* run of run_check that raises nothing ends PASSED or FAILED.
C21_WhenNothingRaises ==
    (raised = "" /\ bac_pc = "done") => check_result.result_type \in {"PASSED", "FAILED"}

\* A command of one or two words whose program name is an interpreter of the tool.
StopsAtInterpreter(com, tool) ==
    /\ Len(com) \in {1, 2}
    /\ Basename(com[1]) \in tool.interpreter

\* C22: has_deploy_command never raises: every call returns a string, and a command
\* of one or two words whose program name is an interpreter of the build tool is not
\* the command returned.
C22_HasDeployCommandNeverRaises ==
    /\ hdc_pc # "raised"
    /\ hdc_pc = "returned" =>
          /\ hdc_deploy_cmd \in {<<>>} \cup Range(hdc_commands)
          /\ ~(hdc_deploy_cmd # <<>> /\ StopsAtInterpreter(hdc_deploy_cmd, build_tool))

\* C22 for the calls that return: the result is "" or one of the commands, never a
\* command that stops at an interpreter; and a call raises only when a command whose
\* program name is an interpreter has fewer than three words.
C22_RaisesOnlyAtInterpreter ==
    /\ hdc_pc = "returned" =>
          /\ hdc_deploy_cmd \in {<<>>} \cup Range(hdc_commands)
          /\ ~(hdc_deploy_cmd # <<>> /\ StopsAtInterpreter(hdc_deploy_cmd, build_tool))
    /\ hdc_pc = "raised" =>
          \E k \in DOMAIN hdc_commands :
              /\ hdc_commands[k] # <<>>
              /\ StopsAtInterpreter(hdc_commands[k], build_tool)

\* The certainties of an evaluated CI service take the values of their sub-checks.
InSubcheckValues(c) ==
    /\ c.ci_parsed \in {0, CiParsedCertainty}
    /\ c.deploy_action \in {0, DeployActionCertainty}
    /\ c.deploy_command \in {0, DeployCommandCertainty}
    /\ c.deploy_kws \in {0, DeployKwsCertainty}

\* One of the deploy sub-checks of an evaluated CI service has a non-zero certainty.
SomeDeploySubcheck(c) == c.deploy_action # 0 \/ c.deploy_command # 0 \/ c.deploy_kws # 0

\* What C23 says of the CI services evaluated by a run that has ended.
PassedIffSomeDeploySubcheck ==
    /\ \A k \in DOMAIN evaluated :
          /\ ci_services[evaluated[k].service].service # "none"
          /\ InSubcheckValues(evaluated[k].certainties)
          /\ FusedScore(evaluated[k].certainties) \in 0..1000000000
          /\ ~SomeDeploySubcheck(evaluated[k].certainties) =>
                FusedScore(evaluated[k].certainties) = 0
    /\ check_result.result_type = "PASSED" <=>
          \E k \in DOMAIN evaluated : SomeDeploySubcheck(evaluated[k].certainties)

\* C23: with a build tool, the sub-check certainties take only their listed values
\* and run_check returns PASSED exactly when, for some CI service that is not a
\* NoneCIService, one of deploy_action, deploy_command or deploy_kws is non-zero;
\* ci_parsed alone gives a fused score of 0 and every fused score lies in [0,1].
C23_PassedIffSomeDeploySubcheck ==
    (Ended /\ build_tool.kind = "tool") => PassedIffSomeDeploySubcheck

\* C23 for the runs that return: the decision is as described.
C23_WhenRunCheckReturns ==
    (bac_pc = "done" /\ build_tool.kind = "tool") => PassedIffSomeDeploySubcheck

=============================================================================
